---- MODULE Spec2Model ----
(***************************************************************************)
(* Model of speech-recognizer/preprocessing.py: the AudioGenerator batch   *)
(* assembly (get_batch, featurize, normalize), the per-partition shuffle   *)
(* and the module-level shuffle_data / sort_data utilities.                *)
(*                                                                         *)
(* Numbers: a feature value is an integer produced by the featurizer; a    *)
(* normalized value (x - mean) / (std + eps) is kept exactly, as the       *)
(* record [num |-> x - mean, den |-> std], standing for num / (den + eps). *)
(* Arrays are sequences (a matrix is a sequence of rows).  A call that     *)
(* raises yields an outcome [kind |-> "error", error |-> ...].             *)
(***************************************************************************)
EXTENDS Integers, Sequences, FiniteSets, Bags, TLC

VARIABLES
    spectrogram,            \* self.spectrogram
    feat_dim,               \* self.feat_dim
    mfcc_dim,               \* self.mfcc_dim
    minimum_batch_size,     \* self.minimum_batch_size
    feats_mean,             \* self.feats_mean
    feats_std,              \* self.feats_std
    train_audio_paths, train_durations, train_texts,
    valid_audio_paths, valid_durations, valid_texts,
    test_audio_paths, test_durations, test_texts,
    cur_train_index, cur_valid_index, cur_test_index,
    last                    \* the last call made on the module and its outcome

config == <<spectrogram, feat_dim, mfcc_dim, minimum_batch_size>>
stats == <<feats_mean, feats_std>>
train == <<train_audio_paths, train_durations, train_texts>>
valid == <<valid_audio_paths, valid_durations, valid_texts>>
test == <<test_audio_paths, test_durations, test_texts>>
cursors == <<cur_train_index, cur_valid_index, cur_test_index>>
vars == <<config, stats, train, valid, test, cursors, last>>

----------------------------------------------------------------------------
(* Bounds of the model *)

MaxDim == 2         \* feat_dim and mfcc_dim range over 1..MaxDim
MaxBatch == 2       \* minimum_batch_size ranges over 1..MaxBatch
MaxCursor == 2      \* the caller sets cursors in 0..MaxCursor
MaxSortLen == 4     \* sort_data is applied to sequences of at most this length
MaxDuration == 2    \* with durations in 1..MaxDuration

----------------------------------------------------------------------------
(* Helpers *)

Max(S) == CHOOSE x \in S : \A y \in S : y <= x

Min2(a, b) == IF a <= b THEN a ELSE b

Perms(n) == {p \in [1..n -> 1..n] : \A i, j \in 1..n : i # j => p[i] # p[j]}

\* [lst[i] for i in p]
Reorder(lst, p) == [k \in 1..Len(p) |-> lst[p[k]]]

\* lst[lo:hi] for 0 <= lo: Python clips a slice to the list
PySlice(lst, lo, hi) == SubSeq(lst, lo + 1, Min2(hi, Len(lst)))

Error(name) == [kind |-> "error", error |-> name]

NoOutcome == [kind |-> "none"]

----------------------------------------------------------------------------
(* The corpus and the collaborators (utils.py, python_speech_features) *)

Alphabet ==
    <<"'", " ", "a", "b", "c", "d", "e", "f", "g", "h", "i", "j", "k", "l",
      "m", "n", "o", "p", "q", "r", "s", "t", "u", "v", "w", "x", "y", "z">>

\* text_to_int_sequence: one code per character
CharCode(c) == (CHOOSE k \in 1..Len(Alphabet) : Alphabet[k] = c) - 1

text_to_int_sequence(text) == [k \in 1..Len(text) |-> CharCode(text[k])]

\* the populated partitions: clip ids, durations, transcripts
TrainPaths == <<1, 2, 3>>
TrainDurations == <<1, 3, 1>>
TrainTexts == << <<"h", "i">>, <<"a", " ", "b">>, <<"o">> >>

ValidPaths == <<4, 5>>
ValidDurations == <<2, 2>>
ValidTexts == << <<"o", "k">>, <<"y", "e", "s">> >>

TestPaths == <<6, 7>>
TestDurations == <<1, 2>>
TestTexts == << <<"n", "o">>, <<"y">> >>

\* number of frames the featurizer produces for each clip
ClipSteps == <<1, 3, 2, 2, 1, 1, 2>>

RawValue(a, t, j) == ((a + 2 * t + j) % 5) - 2

\* spectrogram_from_file / mfcc: time-steps x feature-dimension
Extract(a, width) ==
    [t \in 1..ClipSteps[a] |-> [j \in 1..width |-> RawValue(a, t, j)]]

----------------------------------------------------------------------------
(* AudioGenerator *)

BlankId == 28

Zero == [num |-> 0, den |-> 1]

\* the attributes __init__ assigns, and the partition lists the loader fills
InstanceAttributes ==
    {"feat_dim", "mfcc_dim", "feats_mean", "feats_std", "rng", "step",
     "window", "max_freq", "cur_train_index", "cur_valid_index",
     "cur_test_index", "max_duration", "minimum_batch_size", "spectrogram",
     "sort_by_duration",
     "train_audio_paths", "train_durations", "train_texts",
     "valid_audio_paths", "valid_durations", "valid_texts",
     "test_audio_paths", "test_durations", "test_texts"}

Partitions == {"train", "valid", "test"}

PartitionArgs == Partitions \cup {"bogus"}

Init ==
    /\ spectrogram \in BOOLEAN
    /\ feat_dim \in 1..MaxDim
    /\ mfcc_dim \in 1..MaxDim
    /\ minimum_batch_size \in 1..MaxBatch
    /\ feats_mean = [j \in 1..feat_dim |-> 0]
    /\ feats_std = [j \in 1..feat_dim |-> 1]
    /\ train_audio_paths = TrainPaths
    /\ train_durations = TrainDurations
    /\ train_texts = TrainTexts
    /\ valid_audio_paths = ValidPaths
    /\ valid_durations = ValidDurations
    /\ valid_texts = ValidTexts
    /\ test_audio_paths = TestPaths
    /\ test_durations = TestDurations
    /\ test_texts = TestTexts
    /\ cur_train_index = 0
    /\ cur_valid_index = 0
    /\ cur_test_index = 0
    /\ last = [op |-> "none", partition |-> "none", outcome |-> NoOutcome]

\* featurize: the feature matrix of the configured mode
featurize(audio_clip) ==
    Extract(audio_clip, IF spectrogram THEN feat_dim ELSE mfcc_dim)

\* numpy broadcasting of a (T, w) matrix against the (f,) statistics
Broadcastable(w, f) == w = f \/ w = 1 \/ f = 1

NormalizeRaises(feature) ==
    Len(feature) > 0 /\ ~Broadcastable(Len(feature[1]), Len(feats_mean))

\* normalize: (feature - feats_mean) / (feats_std + eps)
normalize(feature) ==
    LET w == Len(feature[1])
        f == Len(feats_mean)
        width == IF w >= f THEN w ELSE f
    IN [t \in 1..Len(feature) |->
           [j \in 1..width |->
               [num |-> feature[t][IF w = 1 THEN 1 ELSE j]
                        - feats_mean[IF f = 1 THEN 1 ELSE j],
                den |-> feats_std[IF f = 1 THEN 1 ELSE j]]]]

\* variant: train and valid read each other's cursor
CursorAttributeSwapped(partition) ==
    CASE partition = "train" -> "cur_valid_index"
      [] partition = "valid" -> "cur_train_index"
      [] partition = "test" -> "test_valid_index"

\* the name of the attribute get_batch reads the cursor from
CursorAttribute(partition) ==
    CASE partition = "train" -> "cur_train_index"
      [] partition = "valid" -> "cur_valid_index"
      [] partition = "test" -> "test_valid_index"

AttributeValue(name) ==
    CASE name = "cur_train_index" -> cur_train_index
      [] name = "cur_valid_index" -> cur_valid_index
      [] name = "cur_test_index" -> cur_test_index

PathsOf(partition) ==
    CASE partition = "train" -> train_audio_paths
      [] partition = "valid" -> valid_audio_paths
      [] partition = "test" -> test_audio_paths

TextsOf(partition) ==
    CASE partition = "train" -> train_texts
      [] partition = "valid" -> valid_texts
      [] partition = "test" -> test_texts

\* the last dimension of the input tensor:
\* feat_dim * spectrogram + mfcc_dim * (not spectrogram)
InputWidth == IF spectrogram THEN feat_dim ELSE mfcc_dim

\* variant: the batch is cut to the examples the slice found
BatchRowsAvailable(features) == Len(features)

\* the batch dimension used by every range() and allocation of get_batch
BatchRows(features) == minimum_batch_size

\* max([features[i].shape[0] for i in range(rows)])
MaxLength(features, rows) == Max({Len(features[i]) : i \in 1..rows})

\* variant: the maximum over the whole partition
MaxStringLengthGlobal(texts, cur_index, rows) ==
    Max({Len(texts[i]) : i \in 1..Len(texts)})

\* max([len(texts[cur_index + i]) for i in range(rows)])
MaxStringLength(texts, cur_index, rows) ==
    Max({Len(texts[cur_index + i]) : i \in 1..rows})

\* np.zeros([rows, max_length, width])
InitialInput(rows, max_length, width) ==
    [i \in 1..rows |-> [t \in 1..max_length |-> [j \in 1..width |-> Zero]]]

\* variant: np.zeros([rows, max_string_length])
InitialLabelsZero(rows, max_string_length) ==
    [i \in 1..rows |-> [c \in 1..max_string_length |-> 0]]

\* np.ones([rows, max_string_length]) * 28
InitialLabels(rows, max_string_length) ==
    [i \in 1..rows |-> [c \in 1..max_string_length |-> BlankId]]

\* input_data[i, :feat.shape[0], :] = feat broadcasts feat to the slot
Assignable(w, width) == w = width \/ w = 1

\* lines 68-102 of get_batch, after the partition has been selected
AssembleBatch(audio_paths, cur_index, texts) ==
    LET window == PySlice(audio_paths, cur_index, cur_index + minimum_batch_size)
        raw == [k \in 1..Len(window) |-> featurize(window[k])]
    IN  IF \E k \in 1..Len(raw) : NormalizeRaises(raw[k])
        THEN Error("ValueError")
        ELSE
        LET features == [k \in 1..Len(raw) |-> normalize(raw[k])]
            rows == BatchRows(features)
        IN  IF rows > Len(features) THEN Error("IndexError")
            ELSE IF rows = 0 THEN Error("ValueError")
            ELSE IF cur_index + rows > Len(texts) THEN Error("IndexError")
            ELSE
            LET max_length == MaxLength(features, rows)
                max_string_length == MaxStringLength(texts, cur_index, rows)
                input_data0 == InitialInput(rows, max_length, InputWidth)
                labels0 == InitialLabels(rows, max_string_length)
                label == [i \in 1..rows |->
                             text_to_int_sequence(texts[cur_index + i])]
            IN  IF \E i \in 1..rows :
                       ~Assignable(Len(features[i][1]), InputWidth)
                THEN Error("ValueError")
                ELSE IF \E i \in 1..rows : Len(label[i]) > max_string_length
                THEN Error("ValueError")
                ELSE
                [kind |-> "batch",
                 the_input |->
                     [i \in 1..rows |-> [t \in 1..max_length |->
                         IF t <= Len(features[i])
                         THEN [j \in 1..InputWidth |->
                                  features[i][t][IF Len(features[i][t]) = 1
                                                 THEN 1 ELSE j]]
                         ELSE input_data0[i][t]]],
                 the_labels |->
                     [i \in 1..rows |-> [c \in 1..max_string_length |->
                         IF c <= Len(label[i]) THEN label[i][c]
                         ELSE labels0[i][c]]],
                 input_length |-> [i \in 1..rows |-> <<Len(features[i])>>],
                 label_length |-> [i \in 1..rows |-> <<Len(label[i])>>],
                 ctc |-> [i \in 1..rows |-> 0]]

\* lines 52-66 of get_batch, then the assembly
GetBatchOutcome(partition) ==
    IF partition \notin Partitions
    THEN Error("Exception: Invalid partition")
    ELSE IF CursorAttribute(partition) \notin InstanceAttributes
    THEN Error("AttributeError")
    ELSE AssembleBatch(PathsOf(partition),
                       AttributeValue(CursorAttribute(partition)),
                       TextsOf(partition))

Called(op, partition, outcome) ==
    [op |-> op, partition |-> partition, outcome |-> outcome]

\* variant: get_batch moves the training cursor past the batch it returns
get_batch_advancing(partition) ==
    /\ last' = Called("get_batch", partition, GetBatchOutcome(partition))
    /\ cur_train_index' =
           IF partition = "train" /\ GetBatchOutcome(partition).kind = "batch"
           THEN cur_train_index + minimum_batch_size ELSE cur_train_index
    /\ UNCHANGED <<config, stats, train, valid, test,
                   cur_valid_index, cur_test_index>>

get_batch(partition) ==
    /\ last' = Called("get_batch", partition, GetBatchOutcome(partition))
    /\ UNCHANGED <<config, stats, train, valid, test, cursors>>

\* variant: the transcripts are left in place
shuffle_data_texts_kept(audio_paths, durations, texts) ==
    {<<Reorder(audio_paths, p), Reorder(durations, p), texts>> :
        p \in Perms(Len(audio_paths))}

\* np.random.permutation: any permutation of the indices
shuffle_data(audio_paths, durations, texts) ==
    {<<Reorder(audio_paths, p), Reorder(durations, p), Reorder(texts, p)>> :
        p \in Perms(Len(audio_paths))}

ShuffleTrain ==
    \E s \in shuffle_data(train_audio_paths, train_durations, train_texts) :
        /\ train_audio_paths' = s[1]
        /\ train_durations' = s[2]
        /\ train_texts' = s[3]
        /\ UNCHANGED <<config, stats, valid, test, cursors>>

ShuffleValid ==
    \E s \in shuffle_data(valid_audio_paths, valid_durations, valid_texts) :
        /\ valid_audio_paths' = s[1]
        /\ valid_durations' = s[2]
        /\ valid_texts' = s[3]
        /\ UNCHANGED <<config, stats, train, test, cursors>>

\* (used by the variant below only)
ShuffleTest ==
    \E s \in shuffle_data(test_audio_paths, test_durations, test_texts) :
        /\ test_audio_paths' = s[1]
        /\ test_durations' = s[2]
        /\ test_texts' = s[3]
        /\ UNCHANGED <<config, stats, train, valid, cursors>>

\* variant: the test partition is shuffled too
shuffle_data_by_partition_any(partition) ==
    IF partition = "train"
    THEN /\ ShuffleTrain
         /\ last' = Called("shuffle_data_by_partition", partition,
                           [kind |-> "returned"])
    ELSE IF partition = "valid"
    THEN /\ ShuffleValid
         /\ last' = Called("shuffle_data_by_partition", partition,
                           [kind |-> "returned"])
    ELSE IF partition = "test"
    THEN /\ ShuffleTest
         /\ last' = Called("shuffle_data_by_partition", partition,
                           [kind |-> "returned"])
    ELSE /\ last' = Called("shuffle_data_by_partition", partition,
                           Error("Exception: Invalid partition"))
         /\ UNCHANGED <<config, stats, train, valid, test, cursors>>

shuffle_data_by_partition(partition) ==
    IF partition = "train"
    THEN /\ ShuffleTrain
         /\ last' = Called("shuffle_data_by_partition", partition,
                           [kind |-> "returned"])
    ELSE IF partition = "valid"
    THEN /\ ShuffleValid
         /\ last' = Called("shuffle_data_by_partition", partition,
                           [kind |-> "returned"])
    ELSE /\ last' = Called("shuffle_data_by_partition", partition,
                           Error("Exception: Invalid partition"))
         /\ UNCHANGED <<config, stats, train, valid, test, cursors>>

\* the training loop owns the cursors and moves them between calls
set_cursor(partition, c) ==
    /\ cur_train_index' = IF partition = "train" THEN c ELSE cur_train_index
    /\ cur_valid_index' = IF partition = "valid" THEN c ELSE cur_valid_index
    /\ cur_test_index' = IF partition = "test" THEN c ELSE cur_test_index
    /\ last' = Called("set_cursor", partition, NoOutcome)
    /\ UNCHANGED <<config, stats, train, valid, test>>

\* variant: the transcripts are left in place
sort_data_texts_kept(audio_paths, durations, texts) ==
    {<<Reorder(audio_paths, p), Reorder(durations, p), texts>> :
        p \in {q \in Perms(Len(durations)) :
                  \A i, j \in 1..Len(durations) :
                      i < j => durations[q[i]] <= durations[q[j]]}}

\* np.argsort(durations) with the default kind ('quicksort', not a stable
\* sort): any index order that makes the durations ascend
argsort(durations) ==
    {p \in Perms(Len(durations)) :
        \A i, j \in 1..Len(durations) :
            i < j => durations[p[i]] <= durations[p[j]]}

sort_data(audio_paths, durations, texts) ==
    {<<Reorder(audio_paths, p), Reorder(durations, p), Reorder(texts, p)>> :
        p \in argsort(durations)}

\* the argument lists sort_data is applied to
SortInputs ==
    UNION {{<<[i \in 1..n |-> i], durations,
              [i \in 1..n |-> <<Alphabet[i + 2]>>]>> :
               durations \in [1..n -> 1..MaxDuration]} : n \in 0..MaxSortLen}

SortData ==
    \E args \in SortInputs :
        \E out \in sort_data(args[1], args[2], args[3]) :
            /\ last' = [op |-> "sort_data", partition |-> "none",
                        args |-> args,
                        outcome |-> [kind |-> "returned",
                                     audio_paths |-> out[1],
                                     durations |-> out[2],
                                     texts |-> out[3]]]
            /\ UNCHANGED <<config, stats, train, valid, test, cursors>>

GetBatch == \E partition \in PartitionArgs : get_batch(partition)

Shuffle == \E partition \in PartitionArgs : shuffle_data_by_partition(partition)

\* cur_test_index is read by no method, so the loop's moves of it are left out
SetCursor ==
    \E partition \in {"train", "valid"}, c \in 0..MaxCursor :
        set_cursor(partition, c)

Next == GetBatch \/ Shuffle \/ SetCursor

Spec == Init /\ [][Next]_vars

\* sort_data applied to arbitrary argument lists
\* (the generator takes no part in it: one configuration is enough)
SortInit ==
    /\ Init
    /\ spectrogram
    /\ feat_dim = 1
    /\ mfcc_dim = 1
    /\ minimum_batch_size = 1

SortNext == SortData

SortSpec == SortInit /\ [][SortNext]_vars

----------------------------------------------------------------------------
(* Properties *)

\* the cursor that belongs to a partition
OwnCursor(partition) ==
    CASE partition = "train" -> cur_train_index
      [] partition = "valid" -> cur_valid_index
      [] partition = "test" -> cur_test_index

BatchReturned == last.op = "get_batch" /\ last.outcome.kind = "batch"

\* the window [cursor, cursor + minimum_batch_size) lies within the partition
WindowFits(partition) ==
    OwnCursor(partition) + minimum_batch_size <= Len(PathsOf(partition))

\* the example that row i of the last batch should come from
RowPath(i) == PathsOf(last.partition)[OwnCursor(last.partition) + i]

RowText(i) == TextsOf(last.partition)[OwnCursor(last.partition) + i]

\* C1: for every partition in {train, valid, test} and every cursor whose
\* window fits in the partition, get_batch returns a batch whose input tensor,
\* label tensor, input-length vector, label-length vector and ctc placeholder
\* all have first dimension minimum_batch_size.
C1_BatchFirstDimension ==
    (last.op = "get_batch" /\ last.partition \in Partitions
        /\ WindowFits(last.partition))
    => /\ last.outcome.kind = "batch"
       /\ Len(last.outcome.the_input) = minimum_batch_size
       /\ Len(last.outcome.the_labels) = minimum_batch_size
       /\ Len(last.outcome.input_length) = minimum_batch_size
       /\ Len(last.outcome.label_length) = minimum_batch_size
       /\ Len(last.outcome.ctc) = minimum_batch_size

\* C2: in every returned batch, for every row, the input entries at time
\* positions past the row's input length are zero and the label entries past
\* the row's label length are the blank id.
C2_PaddingIsZeroAndBlank ==
    BatchReturned =>
        \A i \in 1..Len(last.outcome.the_input) :
            /\ \A t \in 1..Len(last.outcome.the_input[i]) :
                   t > last.outcome.input_length[i][1] =>
                       \A j \in 1..Len(last.outcome.the_input[i][t]) :
                           last.outcome.the_input[i][t][j].num = 0
            /\ \A c \in 1..Len(last.outcome.the_labels[i]) :
                   c > last.outcome.label_length[i][1] =>
                       last.outcome.the_labels[i][c] = BlankId

\* a returned batch with a row padded in both tensors
C2_Witness ==
    /\ BatchReturned
    /\ \E i \in 1..Len(last.outcome.the_input) :
           /\ last.outcome.input_length[i][1] < Len(last.outcome.the_input[i])
           /\ last.outcome.label_length[i][1] < Len(last.outcome.the_labels[i])

\* C3: the time dimension of a returned input tensor is the maximum number of
\* time-steps among the examples of the window, and the label width is the
\* maximum transcript length among them.
C3_SizedToWindowMaxima ==
    BatchReturned =>
        LET rows == 1..minimum_batch_size
            max_time == Max({ClipSteps[RowPath(i)] : i \in rows})
            max_label == Max({Len(RowText(i)) : i \in rows})
        IN  \A i \in 1..Len(last.outcome.the_input) :
                /\ Len(last.outcome.the_input[i]) = max_time
                /\ Len(last.outcome.the_labels[i]) = max_label

\* a returned batch whose window leaves out the longest clip and the longest
\* transcript of its partition
C3_Witness ==
    /\ BatchReturned
    /\ Len(last.outcome.the_input[1])
           < Max({ClipSteps[a] : a \in {PathsOf(last.partition)[k] :
                                   k \in 1..Len(PathsOf(last.partition))}})
    /\ Len(last.outcome.the_labels[1])
           < Max({Len(TextsOf(last.partition)[k]) :
                     k \in 1..Len(TextsOf(last.partition))})

\* the multiset of index-aligned (audio_ref, duration, text) triples
Triples(audio_paths, durations, texts) ==
    LET T == {<<audio_paths[i], durations[i], texts[i]>> :
                 i \in 1..Len(audio_paths)}
    IN  [x \in T |-> Cardinality({i \in 1..Len(audio_paths) :
                        <<audio_paths[i], durations[i], texts[i]>> = x})]

SameLengths(audio_paths, durations, texts) ==
    Len(audio_paths) = Len(durations) /\ Len(durations) = Len(texts)

\* C4: after any sequence of shuffles the three sequences of a partition keep
\* equal length and hold the original index-aligned triples, as a multiset.
C4_ShufflePermutesTogether ==
    /\ SameLengths(train_audio_paths, train_durations, train_texts)
    /\ SameLengths(valid_audio_paths, valid_durations, valid_texts)
    /\ Triples(train_audio_paths, train_durations, train_texts)
           = Triples(TrainPaths, TrainDurations, TrainTexts)
    /\ Triples(valid_audio_paths, valid_durations, valid_texts)
           = Triples(ValidPaths, ValidDurations, ValidTexts)

\* a shuffle has reordered both partitions
C4_Witness ==
    /\ last.op = "shuffle_data_by_partition"
    /\ train_audio_paths # TrainPaths
    /\ valid_audio_paths # ValidPaths

InvalidPartition == Error("Exception: Invalid partition")

\* C5: get_batch raises the invalid-partition error for every partition other
\* than train, valid and test, and shuffle_data_by_partition raises it for
\* every value other than train and valid; in these cases no batch is
\* returned and no partition sequence is reordered.
C5_InvalidPartitionRaises ==
    [][ /\ (last'.op = "get_batch" /\ last'.partition \notin Partitions)
            => (last'.outcome = InvalidPartition
                /\ UNCHANGED <<train, valid, test>>)
        /\ (last'.op = "shuffle_data_by_partition"
                /\ last'.partition \notin {"train", "valid"})
            => (last'.outcome = InvalidPartition
                /\ UNCHANGED <<train, valid, test>>) ]_vars

\* the shuffle of "test" has been refused, after a shuffle of train
C5_Witness ==
    /\ last.op = "shuffle_data_by_partition"
    /\ last.partition = "test"
    /\ last.outcome = InvalidPartition
    /\ train_audio_paths # TrainPaths

\* C7: a call of get_batch, returning or raising, leaves the cursors, the
\* partition sequences and the normalization statistics as they were, and a
\* second call on the same partition right after it reads the same window.
C7_GetBatchHasNoSideEffects ==
    [][ /\ last'.op = "get_batch"
            => UNCHANGED <<cursors, train, valid, test, stats>>
        /\ (last.op = "get_batch" /\ last'.op = "get_batch"
                /\ last'.partition = last.partition)
            => last'.outcome = last.outcome ]_vars

\* get_batch has returned a batch from a moved cursor of a shuffled partition
C7_Witness ==
    /\ BatchReturned
    /\ OwnCursor(last.partition) > 0
    /\ PathsOf(last.partition) \notin {TrainPaths, ValidPaths, TestPaths}

\* C8: in both feature modes the mean and std vectors set at construction
\* have the length of the feature dimension, the last dimension of the
\* feature matrices and of the input tensor.
C8_StatsHaveFeatureDimension ==
    /\ Len(feats_mean) = InputWidth
    /\ Len(feats_std) = InputWidth
    /\ \A a \in 1..Len(ClipSteps) : Len(featurize(a)[1]) = InputWidth

\* C9: when fewer than minimum_batch_size examples remain at or after the
\* cursor, get_batch ends in an error; no batch has fewer rows than
\* minimum_batch_size.
C9_NoPartialBatch ==
    /\ (last.op = "get_batch" /\ last.partition \in Partitions
            /\ ~WindowFits(last.partition))
        => last.outcome.kind = "error"
    /\ BatchReturned => Len(last.outcome.the_input) = minimum_batch_size

\* get_batch has raised on a window with some, but too few, examples left
C9_Witness ==
    /\ last.op = "get_batch"
    /\ last.partition \in {"train", "valid"}
    /\ OwnCursor(last.partition) < Len(PathsOf(last.partition))
    /\ ~WindowFits(last.partition)
    /\ last.outcome.kind = "error"

\* C10: row i of a returned batch is built from the example at position
\* cursor + i of the same partition, cursor being that partition's own
\* cursor: its input prefix is the normalized feature matrix of that clip,
\* its label prefix the encoded transcript of that example, and the two
\* lengths are the lengths of these.
C10_RowsComeFromWindowExamples ==
    BatchReturned =>
        /\ Len(last.outcome.the_input) = minimum_batch_size
        /\ \A i \in 1..minimum_batch_size :
            LET feat == normalize(featurize(RowPath(i)))
                label == text_to_int_sequence(RowText(i))
            IN  /\ last.outcome.input_length[i] = <<Len(feat)>>
                /\ Len(feat) = ClipSteps[RowPath(i)]
                /\ SubSeq(last.outcome.the_input[i], 1, Len(feat)) = feat
                /\ last.outcome.label_length[i] = <<Len(label)>>
                /\ Len(label) = Len(RowText(i))
                /\ SubSeq(last.outcome.the_labels[i], 1, Len(label)) = label

\* a batch of the validation partition, read at a cursor that differs from
\* the training cursor
C10_Witness ==
    /\ BatchReturned
    /\ last.partition = "valid"
    /\ cur_valid_index > 0
    /\ cur_train_index # cur_valid_index

SortReturned == last.op = "sort_data"

NonDecreasing(durations) ==
    \A i \in 1..(Len(durations) - 1) : durations[i] <= durations[i + 1]

\* the index order of the stable ascending sort
StableOrder(durations, p) ==
    \A i, j \in 1..Len(durations) :
        i < j => \/ durations[p[i]] < durations[p[j]]
                 \/ (durations[p[i]] = durations[p[j]] /\ p[i] < p[j])

\* C6 as stated: sort_data returns the three sequences reordered by the
\* stable ascending sort of the durations (examples of equal duration keep
\* their relative order).
C6_StableSort ==
    SortReturned =>
        \E p \in Perms(Len(last.args[2])) :
            /\ StableOrder(last.args[2], p)
            /\ last.outcome.audio_paths = Reorder(last.args[1], p)
            /\ last.outcome.durations = Reorder(last.args[2], p)
            /\ last.outcome.texts = Reorder(last.args[3], p)

\* C6, amended: sort_data applies one permutation to the three sequences, the
\* returned durations are non-decreasing and the multiset of index-aligned
\* triples is preserved; the order of examples of equal duration is not fixed.
C6_AscendingSort ==
    SortReturned =>
        /\ NonDecreasing(last.outcome.durations)
        /\ SameLengths(last.outcome.audio_paths, last.outcome.durations,
                       last.outcome.texts)
        /\ Triples(last.outcome.audio_paths, last.outcome.durations,
                   last.outcome.texts)
               = Triples(last.args[1], last.args[2], last.args[3])
        /\ \E p \in Perms(Len(last.args[2])) :
               /\ last.outcome.audio_paths = Reorder(last.args[1], p)
               /\ last.outcome.durations = Reorder(last.args[2], p)
               /\ last.outcome.texts = Reorder(last.args[3], p)

\* sort_data has reordered an input that has examples of equal duration
C6_Witness ==
    /\ SortReturned
    /\ last.outcome.durations # last.args[2]
    /\ \E i, j \in 1..Len(last.args[2]) :
           i # j /\ last.args[2][i] = last.args[2][j]

====
